---- MODULE Spec2Model ----
(***************************************************************************)
(* A model of rrdom's virtual DOM (RRNode, RRDocument, RRElement and the   *)
(* leaf node classes): the tree-mutation methods appendChild, insertBefore *)
(* and removeChild, the factory methods of RRDocument, and the             *)
(* synchronizer RRDocument.buildFromDom with its mirror table.             *)
(*                                                                         *)
(* Virtual nodes are the naturals in Nodes; node 1 is the RRDocument       *)
(* under study.  A heap is a record of the per-node fields.  Every method  *)
(* is an operator from a heap (and its arguments) to an outcome            *)
(* [h, err, ret]: the heap it leaves, the error it throws ("none" when it  *)
(* returns normally) and the value it returns.                             *)
(***************************************************************************)
EXTENDS Integers, Sequences, FiniteSets, TLC

\* ------------------------------------------------------------- bounds
\* Virtual objects alive at once, child entries over all children arrays
\* (a cap on the tree-mutation calls), live nodes ever created, and
\* tree-mutation calls made from outside in a run with buildFromDom calls.
MaxAlloc == 3
MaxSlots == 3
MaxLive == 3
MaxEdits == 1
\* Live nodes of the page of the scenario runs, and style views held at once.
MaxPage == 5
MaxViews == 2
\* Tree-mutation calls made before a tree is queried.
MaxQueryEdits == 2

\* ---------------------------------------------------------- constants
Null == 0
doc == 1

LeafKinds == {"DocumentType", "Text", "CDATA", "Comment"}
Kinds == {"Document", "Element"} \cup LeafKinds

\* The pool of object identities and the class of each: an object never
\* changes class, so its class is a function of its identity.
KindCycle == <<"Element", "DocumentType", "Text", "Element", "DocumentType",
               "Comment", "CDATA", "Document", "Text", "Comment", "CDATA",
               "Element", "Element", "Text", "Text", "Comment", "Comment",
               "CDATA", "CDATA", "Document">>
Nodes == 1..(1 + Len(KindCycle))
KindOf(n) == IF n = doc THEN "Document" ELSE KindCycle[n - 1]

\* The live tree: node 1 is the live document handed to buildFromDom.
dom == 1
LiveNodes == 1..MaxPage
Absent == "absent"
LiveTypes == {"DOCUMENT_NODE", "DOCUMENT_TYPE_NODE", "ELEMENT_NODE", "TEXT_NODE",
              "CDATA_SECTION_NODE", "COMMENT_NODE",
              "PROCESSING_INSTRUCTION_NODE"}

\* Element.tagName of the live elements (upper case in an HTML document).
LiveTags == {"HTML", "BODY", "DIV"}

\* The attributes tracked: id (NoAttr when the element has none) and style.
\* A style attribute text is the sequence of its declarations; undefined and
\* the empty string, both falsy for the style getter, are both <<>>.
NoAttr == "undefined"
NoAttributes == [id |-> NoAttr, style |-> <<>>]

\* No __sn record on a node.
NoSn == [id |-> 0, type |-> "none", rootId |-> 0]

\* The string arguments of a call: the tag of getElementsByTagName, the name
\* and the value of setProperty.
NoText == [name |-> "", value |-> ""]

\* The record of a call: the method, the receiver, the arguments, the index
\* indexOf found (0 when it found none or was not called), the error thrown
\* and the value returned.
NoCall == [op |-> "none", recv |-> Null, arg |-> Null, ref |-> Null,
           index |-> 0, err |-> "none", ret |-> Null]

VARIABLES
  alloc,          \* the virtual nodes constructed so far
  children,       \* RRNode.children
  parentNode,     \* RRNode.parentNode
  parentElement,  \* RRNode.parentElement
  rrsn,           \* the id of RRNode.__sn, 0 when undefined
  tagName,        \* RRElement.tagName, "" on the other classes
  attributes,     \* RRElement.attributes
  mirror,         \* RRDocument.mirror of doc: id -> virtual node
  liveType,       \* nodeType of each live node, Absent before it exists
  liveParent,     \* parentNode of each live node
  liveKids,       \* childNodes of each live node
  sn,             \* the __sn record stamped on each live node
  liveTag,        \* tagName of each live element
  liveAttrs,      \* attributes of each live element
  lastCall,       \* the last call made and how it ended
  walkLog,        \* the visits of the last buildFromDom walk, in order
  edits,          \* tree-mutation calls counted against MaxEdits
  callText,       \* the string arguments of the last call
  found,          \* the array the last getElementsByTagName call returned
  views,          \* the style maps handed out by the style getter
  pc,             \* "walk" while a buildFromDom call is running
  pending,        \* the live nodes the running walk has still to visit
  notSerializedId \* the closure variable of the running walk

treeVars == <<alloc, children, parentNode, parentElement, rrsn, tagName,
              attributes>>
liveVars == <<liveType, liveParent, liveKids, sn>>
pageVars == <<liveTag, liveAttrs>>
callVars == <<callText, found, views>>
walkVars == <<pc, pending, notSerializedId>>
vars == <<alloc, children, parentNode, parentElement, rrsn, tagName,
          attributes, mirror, liveType, liveParent, liveKids, sn, liveTag,
          liveAttrs, lastCall, walkLog, edits, callText, found, views, pc,
          pending, notSerializedId>>

\* ------------------------------------------------------ array helpers
\* Array.prototype.indexOf: the first index holding x, 0 for JavaScript's -1.
IndexOf(s, x) ==
  IF \E i \in 1..Len(s) : s[i] = x
    THEN CHOOSE i \in 1..Len(s) : s[i] = x /\ \A j \in 1..(i - 1) : s[j] # x
    ELSE 0

\* Array.prototype.splice(i, 0, x), i counted from 1.
SpliceIn(s, i, x) == SubSeq(s, 1, i - 1) \o <<x>> \o SubSeq(s, i, Len(s))

\* Array.prototype.splice(i, 1), i counted from 1.
SpliceOut(s, i) == SubSeq(s, 1, i - 1) \o SubSeq(s, i + 1, Len(s))

InSeq(s, x) == \E i \in 1..Len(s) : s[i] = x

\* ---------------------------------------------------------------- heap
Heap == [alloc |-> alloc, children |-> children,
         parentNode |-> parentNode, parentElement |-> parentElement,
         rrsn |-> rrsn, tagName |-> tagName, attributes |-> attributes]

\* RRNode.nodeType: derived from the class of the node.
nodeType(n) == KindOf(n)

Outcome(h, err, ret) == [h |-> h, err |-> err, ret |-> ret]

\* ------------------------------------------------------------ RRNode
\* Mutant: the base method accepts the child as RRElement's does.
RRNode_appendChild_Accepts(h, self, newChild) ==
  Outcome([h EXCEPT !.children[self] = Append(@, newChild),
                    !.parentNode[newChild] = self],
          "none", newChild)

RRNode_appendChild(h, self, newChild) == Outcome(h, "unsupported", Null)

RRNode_insertBefore(h, self, newChild, refChild) ==
  Outcome(h, "unsupported", Null)

\* Mutant: the entry is taken out but parentElement is left as it was.
RRNode_removeChild_KeepsParentElement(h, self, node) ==
  LET indexOfChild == IndexOf(h.children[self], node)
  IN IF indexOfChild # 0
       THEN Outcome([h EXCEPT !.children[self] = SpliceOut(@, indexOfChild),
                              !.parentNode[node] = Null],
                    "none", Null)
       ELSE Outcome(h, "none", Null)

RRNode_removeChild(h, self, node) ==
  LET indexOfChild == IndexOf(h.children[self], node)
  IN IF indexOfChild # 0
       THEN Outcome([h EXCEPT !.children[self] = SpliceOut(@, indexOfChild),
                              !.parentElement[node] = Null,
                              !.parentNode[node] = Null],
                    "none", Null)
       ELSE Outcome(h, "none", Null)

\* -------------------------------------------------------- RRDocument
\* Mutant: the back-references are set before the root constraint is checked.
RRDocument_appendChild_ChecksLate(h, self, childNode) ==
  LET nt == nodeType(childNode)
      h1 == [h EXCEPT !.parentElement[childNode] = Null,
                      !.parentNode[childNode] = self]
  IN IF /\ nt \in {"Element", "DocumentType"}
        /\ \E i \in 1..Len(h.children[self]) :
             nodeType(h.children[self][i]) = nt
       THEN Outcome(h1, IF nt = "Element" THEN "only one RRElement"
                                          ELSE "only one RRDoctype", Null)
       ELSE Outcome([h1 EXCEPT !.children[self] = Append(@, childNode)],
                    "none", childNode)

RRDocument_appendChild(h, self, childNode) ==
  LET nt == nodeType(childNode)
  IN IF /\ nt \in {"Element", "DocumentType"}
        /\ \E i \in 1..Len(h.children[self]) :
             nodeType(h.children[self][i]) = nt
       THEN Outcome(h, IF nt = "Element" THEN "only one RRElement"
                                         ELSE "only one RRDoctype", Null)
       ELSE Outcome([h EXCEPT !.parentElement[childNode] = Null,
                              !.parentNode[childNode] = self,
                              !.children[self] = Append(@, childNode)],
                    "none", childNode)

\* Mutant: the new child is put in after the reference child.
RRDocument_insertBefore_After(h, self, newChild, refChild) ==
  IF refChild = Null
    THEN RRDocument_appendChild(h, self, newChild)
    ELSE LET childIndex == IndexOf(h.children[self], refChild)
         IN IF childIndex = 0
              THEN Outcome(h, "refnotfound", Null)
              ELSE Outcome([h EXCEPT !.children[self] =
                                       SpliceIn(@, childIndex + 1, newChild)],
                           "none", newChild)

RRDocument_insertBefore(h, self, newChild, refChild) ==
  IF refChild = Null
    THEN RRDocument_appendChild(h, self, newChild)
    ELSE LET childIndex == IndexOf(h.children[self], refChild)
         IN IF childIndex = 0
              THEN Outcome(h, "refnotfound", Null)
              ELSE Outcome([h EXCEPT !.children[self] =
                                       SpliceIn(@, childIndex, newChild)],
                           "none", newChild)

\* --------------------------------------------------------- RRElement
RRElement_appendChild(h, self, newChild) ==
  Outcome([h EXCEPT !.children[self] = Append(@, newChild),
                    !.parentNode[newChild] = self,
                    !.parentElement[newChild] = self],
          "none", newChild)

\* Mutant: no test of childIndex, so a missing reference child reaches
\* splice(-1, 0, newChild), which puts the new child in before the last entry.
RRElement_insertBefore_NoRefCheck(h, self, newChild, refChild) ==
  IF refChild = Null
    THEN RRElement_appendChild(h, self, newChild)
    ELSE LET childIndex == IndexOf(h.children[self], refChild)
             at == IF childIndex # 0 THEN childIndex
                   ELSE IF Len(h.children[self]) = 0 THEN 1
                   ELSE Len(h.children[self])
         IN Outcome([h EXCEPT !.children[self] = SpliceIn(@, at, newChild)],
                    "none", newChild)

RRElement_insertBefore(h, self, newChild, refChild) ==
  IF refChild = Null
    THEN RRElement_appendChild(h, self, newChild)
    ELSE LET childIndex == IndexOf(h.children[self], refChild)
         IN IF childIndex = 0
              THEN Outcome(h, "refnotfound", Null)
              ELSE Outcome([h EXCEPT !.children[self] =
                                       SpliceIn(@, childIndex, newChild)],
                           "none", newChild)

\* ------------------------------------------------------------- style
\* The style primitives of './style'.  A CSS text is the sequence of its
\* declarations [name, value]; a property map is the sequence of its entries
\* [key, value] in insertion order, the order in which JavaScript enumerates
\* the keys of an object.

\* camelize: kebab-case to camel-case, on the property names in use.
camelize(name) ==
  CASE name = "background-color" -> "backgroundColor"
    [] name = "set-property" -> "setProperty"
    [] OTHER -> name

\* hyphenate: camel-case to kebab-case, on the property names in use.
hyphenate(key) ==
  CASE key = "backgroundColor" -> "background-color"
    [] key = "setProperty" -> "set-property"
    [] OTHER -> key

HasKey(map, key) == \E i \in 1..Len(map) : map[i].key = key

\* map[key]
Lookup(map, key) == map[CHOOSE i \in 1..Len(map) : map[i].key = key].value

\* map[key] = value: a key the object has keeps its place.
Put(map, key, value) ==
  IF HasKey(map, key)
    THEN [i \in 1..Len(map) |->
            IF map[i].key = key THEN [key |-> key, value |-> value] ELSE map[i]]
    ELSE Append(map, [key |-> key, value |-> value])

\* delete map[key]
Delete(map, key) == SelectSeq(map, LAMBDA e : e.key # key)

\* parse(text): the declarations in order, under the normalized names.
RECURSIVE parseCSSText(_)
parseCSSText(text) ==
  IF text = <<>> THEN <<>>
  ELSE LET last == text[Len(text)]
       IN Put(parseCSSText(SubSeq(text, 1, Len(text) - 1)),
              camelize(last.name), last.value)

\* The value of an entry that is not a string: the closure the style getter
\* stores under setProperty.
Closure == "<closure>"

\* serialize(map): the entries with a string value in order, under the
\* hyphenated names.
toCSSText(map) ==
  LET strings == SelectSeq(map, LAMBDA e : e.value # Closure)
  IN [i \in 1..Len(strings) |->
        [name |-> hyphenate(strings[i].key), value |-> strings[i].value]]

\* get style (lines 396-413): the parsed style attribute, or an empty map
\* when the attribute is falsy, with the closure stored on the map itself
\* under the key setProperty.
RRElement_style(h, self) ==
  LET style == IF h.attributes[self].style # <<>>
                 THEN parseCSSText(h.attributes[self].style)
                 ELSE <<>>
  IN [el |-> self, map |-> Put(style, "setProperty", Closure)]

\* The closure of lines 406-411 called as view.setProperty(name, value): a
\* TypeError when the map no longer holds the closure under setProperty.
\* A falsy value is the empty string.
setProperty(h, view, name, value) ==
  IF ~HasKey(view.map, "setProperty")
     \/ Lookup(view.map, "setProperty") # Closure
    THEN [h |-> h, view |-> view, err |-> "TypeError"]
    ELSE LET normalizedName == camelize(name)
             style == IF value = "" THEN Delete(view.map, normalizedName)
                      ELSE Put(view.map, normalizedName, value)
         IN [h |-> [h EXCEPT !.attributes[view.el].style = toCSSText(style)],
             view |-> [view EXCEPT !.map = style],
             err |-> "none"]

\* RRElement.setAttribute('style', text)
RRElement_setAttribute_style(h, self, text) ==
  [h EXCEPT !.attributes[self].style = text]

\* ---------------------------------------------- getElementsByTagName
\* RRElement.getElementsByTagName: the receiver when its tag matches, then
\* what each RRElement child returns, in the order of the children.  The
\* result is [err, ret].  depth is the room left on the call stack: a chain
\* of calls longer than the number of objects runs round a loop of the
\* children relation and never returns, which ends in a RangeError.
RECURSIVE RRElement_getElementsByTagName(_, _, _, _)
RRElement_getElementsByTagName(h, self, tag, depth) ==
  LET RECURSIVE Loop(_, _)
      Loop(i, elements) ==
        IF i > Len(h.children[self]) THEN [err |-> "none", ret |-> elements]
        ELSE LET child == h.children[self][i]
             IN IF KindOf(child) = "Element"
                  THEN LET r == RRElement_getElementsByTagName(h, child, tag,
                                                               depth - 1)
                       IN IF r.err # "none" THEN r
                          ELSE Loop(i + 1, elements \o r.ret)
                  ELSE Loop(i + 1, elements)
  IN IF depth = 0 THEN [err |-> "RangeError", ret |-> <<>>]
     ELSE Loop(1, IF KindOf(self) = "Element" /\ h.tagName[self] = tag
                    THEN <<self>> ELSE <<>>)

\* RRDocument.getElementsByTagName: the same code on the document, which is
\* never an RRElement itself.
RRDocument_getElementsByTagName(h, self, tag, depth) ==
  LET RECURSIVE Loop(_, _)
      Loop(i, elements) ==
        IF i > Len(h.children[self]) THEN [err |-> "none", ret |-> elements]
        ELSE LET child == h.children[self][i]
             IN IF KindOf(child) = "Element"
                  THEN LET r == RRElement_getElementsByTagName(h, child, tag,
                                                               depth - 1)
                       IN IF r.err # "none" THEN r
                          ELSE Loop(i + 1, elements \o r.ret)
                  ELSE Loop(i + 1, elements)
  IN Loop(1, <<>>)

\* get documentElement: the first RRElement child tagged html, Null for
\* undefined.
documentElement(h, self) ==
  LET hits == SelectSeq(h.children[self],
                        LAMBDA n : KindOf(n) = "Element" /\ h.tagName[n] = "html")
  IN IF hits = <<>> THEN Null ELSE hits[1]

\* get body: the first RRElement child of the documentElement tagged body,
\* Null for null.
body(h, self) ==
  IF documentElement(h, self) = Null THEN Null
  ELSE LET hits == SelectSeq(h.children[documentElement(h, self)],
                             LAMBDA n : KindOf(n) = "Element"
                                        /\ h.tagName[n] = "body")
       IN IF hits = <<>> THEN Null ELSE hits[1]

\* ------------------------------------------------- method dispatch
\* The method a call resolves to, by the class of the receiver.
appendChild(h, self, newChild) ==
  CASE KindOf(self) = "Document" -> RRDocument_appendChild(h, self, newChild)
    [] KindOf(self) = "Element" -> RRElement_appendChild(h, self, newChild)
    [] OTHER -> RRNode_appendChild(h, self, newChild)

insertBefore(h, self, newChild, refChild) ==
  CASE KindOf(self) = "Document" ->
         RRDocument_insertBefore(h, self, newChild, refChild)
    [] KindOf(self) = "Element" ->
         RRElement_insertBefore(h, self, newChild, refChild)
    [] OTHER -> RRNode_insertBefore(h, self, newChild, refChild)

removeChild(h, self, node) == RRNode_removeChild(h, self, node)

\* getElementsByTagName on an RRDocument or an RRElement, called with the
\* whole call stack free.
getElementsByTagName(h, self, tag) ==
  IF KindOf(self) = "Document"
    THEN RRDocument_getElementsByTagName(h, self, tag, Cardinality(h.alloc) + 1)
    ELSE RRElement_getElementsByTagName(h, self, tag, Cardinality(h.alloc) + 1)

\* ----------------------------------------------------------- factories
\* The next unused object of class k, Null when the pool has none left.
FreshNode(h, k) ==
  LET free == {n \in Nodes : KindOf(n) = k /\ n \notin h.alloc}
  IN IF free = {}
       THEN Null
       ELSE CHOOSE n \in free : \A m \in free : n <= m

\* new RRElement(..), new RRText(..), ...: a detached node with no children.
NewNode(h, n) ==
  [h EXCEPT !.alloc = @ \cup {n}, !.children[n] = <<>>,
            !.parentNode[n] = Null, !.parentElement[n] = Null,
            !.rrsn[n] = 0, !.tagName[n] = "", !.attributes[n] = NoAttributes]

\* String.prototype.toLowerCase on the tag names in use.
ToLowerCase(s) ==
  CASE s = "HTML" -> "html"
    [] s = "BODY" -> "body"
    [] s = "DIV" -> "div"
    [] s = "FORM" -> "form"
    [] OTHER -> s

\* new RRElement(lowerTagName), the object createElement(tagName) returns.
NewElement(h, n, tag) == [NewNode(h, n) EXCEPT !.tagName[n] = ToLowerCase(tag)]

\* ------------------------------------------------- buildFromDom
\* NodeTypeMap: the live nodeType constants to rrweb-snapshot's NodeType.
NodeTypeMap(t) ==
  CASE t = "DOCUMENT_NODE" -> "Document"
    [] t = "DOCUMENT_TYPE_NODE" -> "DocumentType"
    [] t = "ELEMENT_NODE" -> "Element"
    [] t = "TEXT_NODE" -> "Text"
    [] t = "CDATA_SECTION_NODE" -> "CDATA"
    [] t = "COMMENT_NODE" -> "Comment"
    [] OTHER -> "undefined"

\* `serializedNodeWithId !== serializedNodeWithId.id`: a record object is
\* never strictly equal to a number.
SnDiffersFromItsId(snr) == TRUE

\* The state a walk threads through its visits: the heap, the mirror, the
\* stamps on the live nodes, the closure variable notSerializedId, the error
\* thrown (which ends the walk) and the log of visits.
WalkState(h, m, stamps) ==
  [h |-> h, mirror |-> m, sn |-> stamps, notSerializedId |-> -1,
   err |-> "none", log |-> <<>>]

\* Mutant: notSerializedId is not decremented.
Identify_NoDecrement(st, node) ==
  IF st.sn[node] = NoSn
    THEN [st EXCEPT !.sn[node] = [id |-> st.notSerializedId,
                                  type |-> NodeTypeMap(liveType[node]),
                                  rootId |-> 0],
                    !.log = Append(@, [node |-> node, id |-> st.notSerializedId,
                                       generated |-> TRUE, rrNode |-> Null])]
    ELSE [st EXCEPT !.log = Append(@, [node |-> node, id |-> st.sn[node].id,
                                       generated |-> FALSE, rrNode |-> Null])]

\* Lines 212-222: a node without __sn gets the next generated id, stamped on it.
Identify(st, node) ==
  IF st.sn[node] = NoSn
    THEN [st EXCEPT !.sn[node] = [id |-> st.notSerializedId,
                                  type |-> NodeTypeMap(liveType[node]),
                                  rootId |-> 0],
                    !.notSerializedId = @ - 1,
                    !.log = Append(@, [node |-> node, id |-> st.notSerializedId,
                                       generated |-> TRUE, rrNode |-> Null])]
    ELSE [st EXCEPT !.log = Append(@, [node |-> node, id |-> st.sn[node].id,
                                       generated |-> FALSE, rrNode |-> Null])]

\* Lines 224-312: the class of the virtual node made for a live node that is
\* not in the mirror; "this" for the calling document, "skip" for the default
\* case.
ResolveKind(node, snr) ==
  CASE liveType[node] = "DOCUMENT_NODE" ->
         IF snr.rootId # 0 /\ SnDiffersFromItsId(snr) THEN "Document" ELSE "this"
    [] liveType[node] = "DOCUMENT_TYPE_NODE" -> "DocumentType"
    [] liveType[node] = "ELEMENT_NODE" -> "Element"
    [] liveType[node] = "TEXT_NODE" -> "Text"
    [] liveType[node] = "CDATA_SECTION_NODE" -> "CDATA"
    [] liveType[node] = "COMMENT_NODE" -> "Comment"
    [] OTHER -> "skip"

\* Mutant: the node is appended under the calling document, not under the
\* virtual node of its live parent.
Attach_UnderDocument(st, self, node, rrNode) ==
  LET parent == liveParent[node]
  IN IF parent = Null THEN st
     ELSE IF st.sn[parent] = NoSn \/ st.sn[parent].id \notin DOMAIN st.mirror
       THEN [st EXCEPT !.err = "TypeError"]
     ELSE LET parentRRNode == self
              o == appendChild(st.h, parentRRNode, rrNode)
          IN IF o.err # "none"
               THEN [st EXCEPT !.h = o.h, !.err = o.err]
               ELSE [st EXCEPT !.h = [o.h EXCEPT
                        !.parentNode[rrNode] = parentRRNode,
                        !.parentElement[rrNode] =
                          IF KindOf(parentRRNode) = "Element"
                            THEN parentRRNode ELSE Null]]

\* Mutant: parentElement is set to the parent whatever its class.
Attach_AnyParentAsElement(st, self, node, rrNode) ==
  LET parent == liveParent[node]
  IN IF parent = Null THEN st
     ELSE IF st.sn[parent] = NoSn \/ st.sn[parent].id \notin DOMAIN st.mirror
       THEN [st EXCEPT !.err = "TypeError"]
     ELSE LET parentRRNode == st.mirror[st.sn[parent].id]
              o == appendChild(st.h, parentRRNode, rrNode)
          IN IF o.err # "none"
               THEN [st EXCEPT !.h = o.h, !.err = o.err]
               ELSE [st EXCEPT !.h = [o.h EXCEPT
                        !.parentNode[rrNode] = parentRRNode,
                        !.parentElement[rrNode] = parentRRNode]]

\* Lines 321-329: append the virtual node under the virtual node of the live
\* parent and set its back-references.
Attach(st, self, node, rrNode) ==
  LET parent == liveParent[node]
  IN IF parent = Null THEN st
     ELSE IF st.sn[parent] = NoSn \/ st.sn[parent].id \notin DOMAIN st.mirror
       THEN [st EXCEPT !.err = "TypeError"]
     ELSE LET parentRRNode == st.mirror[st.sn[parent].id]
              o == appendChild(st.h, parentRRNode, rrNode)
          IN IF o.err # "none"
               THEN [st EXCEPT !.h = o.h, !.err = o.err]
               ELSE [st EXCEPT !.h = [o.h EXCEPT
                        !.parentNode[rrNode] = parentRRNode,
                        !.parentElement[rrNode] =
                          IF KindOf(parentRRNode) = "Element"
                            THEN parentRRNode ELSE Null]]

\* getValidTagName: 'form' for a live form element, else the lower-cased
\* tagName.
getValidTagName(node) ==
  IF liveTag[node] = "FORM" THEN "form" ELSE ToLowerCase(liveTag[node])

\* Lines 223-320: the virtual node of a visited live node, made and registered
\* or taken from the mirror and stripped.  rrNode is Null for a skipped node.
Resolve(st, self, node) ==
  LET snr == st.sn[node]
  IN IF snr.id \notin DOMAIN st.mirror
       THEN LET k == ResolveKind(node, snr)
                n == IF k = "this" THEN self ELSE FreshNode(st.h, k)
            IN IF k = "skip" THEN [st |-> st, rrNode |-> Null]
               ELSE IF n = Null
                 THEN [st |-> [st EXCEPT !.err = "pool exhausted"], rrNode |-> Null]
               ELSE LET h1 == CASE k = "this" -> st.h
                                [] k = "Element" ->
                                     [NewElement(st.h, n, getValidTagName(node))
                                        EXCEPT !.attributes[n] = liveAttrs[node]]
                                [] OTHER -> NewNode(st.h, n)
                    IN [st |-> [st EXCEPT !.h = [h1 EXCEPT !.rrsn[n] = snr.id],
                                          !.mirror = (snr.id :> n) @@ @],
                        rrNode |-> n]
       ELSE LET n == st.mirror[snr.id]
            IN [st |-> [st EXCEPT !.h = [@ EXCEPT !.parentElement[n] = Null,
                                                  !.parentNode[n] = Null,
                                                  !.children[n] = <<>>]],
                rrNode |-> n]

\* The log of visits: the virtual node the last visit resolved to.
Logged(st, rrNode) == [st EXCEPT !.log[Len(st.log)].rrNode = rrNode]

\* Lines 321-330 for the resolved node r.rrNode.  descend says whether
\* lines 331-336 go on to the live children: the node was not skipped,
\* nothing was thrown and its record is a Document or an Element.
Attached(st, self, node, rrNode) ==
  IF rrNode = Null THEN [st |-> st, descend |-> FALSE]
  ELSE LET s2 == Attach(st, self, node, rrNode)
       IN [st |-> s2,
           descend |-> /\ s2.err = "none"
                       /\ s2.sn[node].type \in {"Document", "Element"}]

\* Lines 212-330: one visit without the visits of the children.  Each stage
\* is bound to its value, so that it is computed once.
visit(st, self, node) ==
  CHOOSE v \in
    {Attached(IF r.rrNode = Null THEN r.st ELSE Logged(r.st, r.rrNode),
              self, node, r.rrNode) :
       r \in {Resolve(s1, self, node) : s1 \in {Identify(st, node)}}} : TRUE

\* Lines 211-337: one visit and, for a Document or Element record, the visits
\* of the live children in order.  A thrown error ends everything.
RECURSIVE walk(_, _, _), walkChildren(_, _, _, _)
walk(st, self, node) ==
  IF st.err # "none" THEN st
  ELSE LET v == visit(st, self, node)
       IN IF v.descend
            THEN walkChildren(v.st, self, liveKids[node], 1)
            ELSE v.st

walkChildren(st, self, kids, i) ==
  IF i > Len(kids) THEN st
  ELSE walkChildren(walk(st, self, kids[i]), self, kids, i + 1)

\* Mutant: the visits that are still to come keep the node just visited.
Descend_KeepsVisited(todo, node, descend) ==
  IF descend THEN liveKids[node] \o todo ELSE Tail(todo)

\* The visits that are still to come after the visit of the first of them:
\* the recursion of lines 331-336 visits the live children of the node in
\* order before anything else.
Descend(todo, node, descend) ==
  IF descend THEN liveKids[node] \o Tail(todo) ELSE Tail(todo)

\* Mutant: the mirror is cleared but the document keeps its children.
destroyTree_KeepsChildren(st, self) == [st EXCEPT !.mirror = <<>>]

\* Mutant: the children are dropped but the mirror is not cleared.
destroyTree_KeepsMirror(st, self) ==
  [st EXCEPT !.h = [@ EXCEPT !.children[self] = <<>>]]

\* RRDocument.destroyTree
destroyTree(st, self) ==
  [st EXCEPT !.h = [@ EXCEPT !.children[self] = <<>>], !.mirror = <<>>]

\* RRDocument.buildFromDom(d): the state the call leaves, Null for a null d.
buildFromDom(st, self, d) ==
  IF d = Null THEN st ELSE walk(destroyTree(st, self), self, d)

\* ------------------------------------------------------------- state
TotalSlots(h) ==
  LET RECURSIVE Sum(_)
      Sum(S) == IF S = {} THEN 0
                ELSE LET n == CHOOSE n \in S : TRUE
                     IN Len(h.children[n]) + Sum(S \ {n})
  IN Sum(h.alloc)

SetHeap(h) ==
  /\ alloc' = h.alloc
  /\ children' = h.children
  /\ parentNode' = h.parentNode
  /\ parentElement' = h.parentElement
  /\ rrsn' = h.rrsn
  /\ tagName' = h.tagName
  /\ attributes' = h.attributes

\* A call of a tree-mutation method from outside: the heap the method leaves
\* and the record of the call (the arguments are kept for the calls that
\* returned normally, the receiver and the error for the calls that threw).
Commit(o, call) ==
  /\ lastCall' = IF o.err = "none"
                    THEN [call EXCEPT !.ret = o.ret]
                    ELSE [NoCall EXCEPT !.op = call.op, !.recv = call.recv,
                                        !.err = o.err]
  /\ TotalSlots(o.h) <= MaxSlots
  /\ SetHeap(o.h)
  /\ UNCHANGED <<mirror, liveVars, walkLog, pageVars, callVars, walkVars>>

Init ==
  /\ alloc = {doc}
  /\ children = [n \in Nodes |-> <<>>]
  /\ parentNode = [n \in Nodes |-> Null]
  /\ parentElement = [n \in Nodes |-> Null]
  /\ rrsn = [n \in Nodes |-> 0]
  /\ tagName = [n \in Nodes |-> ""]
  /\ attributes = [n \in Nodes |-> NoAttributes]
  /\ mirror = <<>>
  /\ liveType = [l \in LiveNodes |-> IF l = dom THEN "DOCUMENT_NODE" ELSE Absent]
  /\ liveParent = [l \in LiveNodes |-> Null]
  /\ liveKids = [l \in LiveNodes |-> <<>>]
  /\ sn = [l \in LiveNodes |-> NoSn]
  /\ lastCall = NoCall
  /\ walkLog = <<>>
  /\ edits = 0
  /\ liveTag = [l \in LiveNodes |-> ""]
  /\ liveAttrs = [l \in LiveNodes |-> NoAttributes]
  /\ callText = NoText
  /\ found = <<>>
  /\ views = <<>>
  /\ pc = "idle"
  /\ pending = <<>>
  /\ notSerializedId = -1

\* doc.createElement / createTextNode / createComment / createCDATASection /
\* createDocumentType / createDocument: a new detached node.
CreateNode(k, tag) ==
  /\ Cardinality(alloc) < MaxAlloc
  /\ FreshNode(Heap, k) # Null
  /\ Commit(Outcome(IF k = "Element"
                      THEN NewElement(Heap, FreshNode(Heap, k), tag)
                      ELSE NewNode(Heap, FreshNode(Heap, k)),
                    "none", FreshNode(Heap, k)),
            [NoCall EXCEPT !.op = "create", !.recv = doc])

\* The factory calls of the runs that do not read tag names: createElement
\* is called with 'DIV'.
Create(k) == CreateNode(k, "DIV")

CallAppendChild(self, newChild) ==
  Commit(appendChild(Heap, self, newChild),
         [NoCall EXCEPT !.op = "appendChild", !.recv = self, !.arg = newChild])

CallInsertBefore(self, newChild, refChild) ==
  Commit(insertBefore(Heap, self, newChild, refChild),
         [NoCall EXCEPT !.op = "insertBefore", !.recv = self,
                        !.arg = newChild, !.ref = refChild,
                        !.index = IF refChild = Null THEN 0
                                  ELSE IndexOf(children[self], refChild)])

CallRemoveChild(self, node) ==
  Commit(removeChild(Heap, self, node),
         [NoCall EXCEPT !.op = "removeChild", !.recv = self, !.arg = node,
                        !.index = IndexOf(children[self], node)])

\* doc.buildFromDom(d) with the live document or null.
CallBuildFromDom(d) ==
  LET st == buildFromDom(WalkState(Heap, mirror, sn), doc, d)
  IN /\ st.err # "pool exhausted"
     /\ SetHeap(st.h)
     /\ mirror' = st.mirror
     /\ sn' = st.sn
     /\ walkLog' = st.log
     /\ lastCall' = [NoCall EXCEPT !.op = "buildFromDom", !.recv = doc,
                                   !.arg = d, !.err = st.err]
     /\ UNCHANGED <<liveType, liveParent, liveKids, edits, pageVars, callVars,
                    walkVars>>

\* doc.buildFromDom(dom) taken one visit at a time.  WalkBegin is the entry
\* of the call, up to the first call of walk.
WalkBegin ==
  LET st == destroyTree(WalkState(Heap, mirror, sn), doc)
  IN /\ pc = "idle"
     /\ buildFromDom(WalkState(Heap, mirror, sn), doc, dom).err # "pool exhausted"
     /\ SetHeap(st.h)
     /\ mirror' = st.mirror
     /\ notSerializedId' = st.notSerializedId
     /\ walkLog' = <<>>
     /\ pending' = <<dom>>
     /\ pc' = "walk"
     /\ lastCall' = NoCall
     /\ UNCHANGED <<liveVars, edits, pageVars, callVars>>

\* One call of walk(node), up to its first recursive call or to its return:
\* a throw ends the buildFromDom call.
WalkStep ==
  /\ pc = "walk"
  /\ pending # <<>>
  /\ \E v \in {visit([WalkState(Heap, mirror, sn) EXCEPT
                        !.notSerializedId = notSerializedId, !.log = walkLog],
                     doc, Head(pending))} :
       /\ \E h \in {v.st.h} : SetHeap(h)
       /\ mirror' = v.st.mirror
       /\ sn' = v.st.sn
       /\ notSerializedId' = v.st.notSerializedId
       /\ walkLog' = v.st.log
       /\ IF v.st.err # "none"
            THEN /\ pc' = "idle"
                 /\ pending' = <<>>
                 /\ lastCall' = [NoCall EXCEPT !.op = "buildFromDom",
                                               !.recv = doc, !.arg = dom,
                                               !.err = v.st.err]
            ELSE /\ pc' = pc
                 /\ pending' = Descend(pending, Head(pending), v.descend)
                 /\ lastCall' = lastCall
  /\ UNCHANGED <<liveType, liveParent, liveKids, edits, pageVars, callVars>>

\* The return of the outermost walk and of buildFromDom.
WalkEnd ==
  /\ pc = "walk"
  /\ pending = <<>>
  /\ pc' = "idle"
  /\ lastCall' = [NoCall EXCEPT !.op = "buildFromDom", !.recv = doc, !.arg = dom]
  /\ UNCHANGED <<treeVars, mirror, liveVars, walkLog, edits, pageVars, callVars,
                 pending, notSerializedId>>

\* The node types the live DOM accepts under a parent.
LiveChildTypes(p) ==
  IF liveType[p] = "DOCUMENT_NODE"
    THEN {"COMMENT_NODE", "PROCESSING_INSTRUCTION_NODE"}
         \cup (IF \E i \in 1..Len(liveKids[p]) :
                     liveType[liveKids[p][i]] = "ELEMENT_NODE"
                THEN {}
                ELSE {"ELEMENT_NODE"}
                     \cup (IF \E i \in 1..Len(liveKids[p]) :
                                 liveType[liveKids[p][i]] = "DOCUMENT_TYPE_NODE"
                            THEN {} ELSE {"DOCUMENT_TYPE_NODE"}))
  ELSE IF liveType[p] = "ELEMENT_NODE"
    THEN {"ELEMENT_NODE", "TEXT_NODE", "CDATA_SECTION_NODE", "COMMENT_NODE",
          "PROCESSING_INSTRUCTION_NODE"}
  ELSE {}

\* The live nodes in the tree under the live document.
InPage(l) == l = dom \/ (liveType[l] # Absent /\ liveParent[l] # Null)

\* The page adds a node of type t to the live tree, an element with the tag
\* and the attributes given; at most cap live nodes are ever made.
LiveAdd(p, t, tag, attrs, cap) ==
  /\ InPage(p)
  /\ t \in LiveChildTypes(p)
  /\ \E l \in 1..cap :
       /\ liveType[l] = Absent
       /\ \A m \in 1..(l - 1) : liveType[m] # Absent
       /\ liveType' = [liveType EXCEPT ![l] = t]
       /\ liveParent' = [liveParent EXCEPT ![l] = p]
       /\ liveKids' = [liveKids EXCEPT ![p] = Append(@, l)]
       /\ liveTag' = [liveTag EXCEPT ![l] = tag]
       /\ liveAttrs' = [liveAttrs EXCEPT ![l] = attrs]
  /\ UNCHANGED <<treeVars, mirror, sn, lastCall, walkLog, edits, callVars,
                 walkVars>>

\* The page adds a node; an element is a <div> without attributes.
LiveAppend(p, t) ==
  LiveAdd(p, t, IF t = "ELEMENT_NODE" THEN "DIV" ELSE "", NoAttributes, MaxLive)

\* The page removes a node without children from the live tree.
LiveRemove(l) ==
  /\ l # dom
  /\ InPage(l)
  /\ liveKids[l] = <<>>
  /\ liveKids' = [liveKids EXCEPT
                    ![liveParent[l]] = SpliceOut(@, IndexOf(@, l))]
  /\ liveParent' = [liveParent EXCEPT ![l] = Null]
  /\ UNCHANGED <<treeVars, mirror, liveType, sn, lastCall, walkLog, edits,
                 pageVars, callVars, walkVars>>

\* rrweb-snapshot serializes a live node and stamps its record on it: a
\* positive id of its own, the mapped type, and for a document possibly a
\* rootId.
Snapshot(l, rootId) ==
  /\ liveType[l] \notin {Absent, "PROCESSING_INSTRUCTION_NODE"}
  /\ sn[l] = NoSn
  /\ rootId # 0 => liveType[l] = "DOCUMENT_NODE"
  /\ sn' = [sn EXCEPT ![l] = [id |-> l, type |-> NodeTypeMap(liveType[l]),
                              rootId |-> rootId]]
  /\ UNCHANGED <<treeVars, mirror, liveType, liveParent, liveKids, lastCall,
                 walkLog, edits, pageVars, callVars, walkVars>>

\* self.getElementsByTagName(tag) called from outside.
CallGetElementsByTagName(self, tag) ==
  LET r == getElementsByTagName(Heap, self, tag)
  IN /\ KindOf(self) \in {"Document", "Element"}
     /\ lastCall' = [NoCall EXCEPT !.op = "getElementsByTagName",
                                   !.recv = self, !.err = r.err]
     /\ callText' = [NoText EXCEPT !.name = tag]
     /\ found' = r.ret
     /\ UNCHANGED <<treeVars, mirror, liveVars, pageVars, walkLog, edits,
                    views, walkVars>>

\* el.style read from outside: the caller holds the map it returns.
ReadStyle(el) ==
  /\ KindOf(el) = "Element"
  /\ Len(views) < MaxViews
  /\ views' = Append(views, RRElement_style(Heap, el))
  /\ lastCall' = [NoCall EXCEPT !.op = "style", !.recv = el,
                                !.index = Len(views) + 1]
  /\ callText' = NoText
  /\ UNCHANGED <<treeVars, mirror, liveVars, pageVars, walkLog, edits, found,
                 walkVars>>

\* views[i].setProperty(name, value) called from outside.
CallSetProperty(i, name, value) ==
  LET o == setProperty(Heap, views[i], name, value)
  IN /\ SetHeap(o.h)
     /\ views' = [views EXCEPT ![i] = o.view]
     /\ lastCall' = [NoCall EXCEPT !.op = "setProperty", !.recv = views[i].el,
                                   !.index = i, !.err = o.err]
     /\ callText' = [name |-> name, value |-> value]
     /\ UNCHANGED <<mirror, liveVars, pageVars, walkLog, edits, found, walkVars>>

\* el.setAttribute('style', text) called from outside.
CallSetAttributeStyle(el, text) ==
  /\ KindOf(el) = "Element"
  /\ SetHeap(RRElement_setAttribute_style(Heap, el, text))
  /\ lastCall' = [NoCall EXCEPT !.op = "setAttribute", !.recv = el]
  /\ callText' = NoText
  /\ UNCHANGED <<mirror, liveVars, pageVars, walkLog, edits, found, views,
                 walkVars>>

\* The tree-mutation calls made from outside.
Edit ==
  \/ \E self, c \in alloc : CallAppendChild(self, c)
  \/ \E self, c \in alloc : \E r \in alloc \cup {Null} :
       CallInsertBefore(self, c, r)
  \/ \E self, c \in alloc : CallRemoveChild(self, c)

Factory == \E k \in Kinds : Create(k)

Next ==
  \/ Factory /\ UNCHANGED edits
  \/ Edit /\ UNCHANGED edits

Spec == Init /\ [][Next]_vars

Build == \E d \in {Null, dom} : CallBuildFromDom(d)

LiveChange == \E p \in LiveNodes : \E t \in LiveTypes : LiveAppend(p, t)

Serialize == \E l \in LiveNodes : \E rootId \in {0, l} : Snapshot(l, rootId)

NextSync ==
  \/ Build
  \/ LiveChange
  \/ Serialize
  \/ edits < MaxEdits /\ Edit /\ edits' = edits + 1

SpecSync == Init /\ [][NextSync]_vars

\* Repeated buildFromDom calls over a page that gains and loses nodes and
\* whose nodes rrweb-snapshot may have serialized.
PageChange ==
  \/ \E p \in LiveNodes : \E t \in LiveTypes \ {"ELEMENT_NODE"} :
       LiveAdd(p, t, "", NoAttributes, MaxLive)
  \/ \E p \in LiveNodes : \E tag \in {"HTML", "DIV"} :
       \E a \in {NoAttr, "a"} :
         LiveAdd(p, "ELEMENT_NODE", tag, [NoAttributes EXCEPT !.id = a], MaxLive)
  \/ \E l \in LiveNodes : LiveRemove(l)

NextRebuild ==
  \/ Build
  \/ PageChange
  \/ Serialize

SpecRebuild == Init /\ [][NextRebuild]_vars

\* The walk taken one visit at a time over a page that changes and is
\* serialized between the calls: JavaScript runs a call to completion, so
\* nothing else runs while a walk is under way, and a walk under way goes on.
NextWalk ==
  \/ pc = "idle" /\ LiveChange
  \/ pc = "idle" /\ Serialize
  \/ WalkBegin
  \/ WalkStep
  \/ WalkEnd

SpecWalk == Init /\ [][NextWalk]_vars /\ WF_vars(WalkStep \/ WalkEnd)

\* Trees of tagged elements, text nodes and documents put together by the
\* tree-mutation calls and queried with getElementsByTagName.
TaggedFactory ==
  \/ \E tag \in {"DIV", "span"} : CreateNode("Element", tag)
  \/ \E k \in {"Text", "Document"} : CreateNode(k, "")

Query ==
  \E self \in alloc : \E tag \in {"div", "span"} :
    CallGetElementsByTagName(self, tag)

NextQuery ==
  \/ TaggedFactory /\ UNCHANGED edits
  \/ edits < MaxQueryEdits /\ Edit /\ edits' = edits + 1
  \/ Query

SpecQuery == Init /\ [][NextQuery]_vars

\* One element whose style attribute is set and whose style views are read
\* and written through.
StyleTexts ==
  {<<>>,
   <<[name |-> "color", value |-> "blue"]>>,
   <<[name |-> "background-color", value |-> "blue"],
     [name |-> "color", value |-> "blue"]>>}

StyleNames == {"color", "background-color", "set-property"}

StyleValues == {"red", ""}

NextStyle ==
  \/ /\ \A n \in alloc : KindOf(n) # "Element"
     /\ Create("Element")
     /\ UNCHANGED edits
  \/ \E el \in alloc : \E text \in StyleTexts : CallSetAttributeStyle(el, text)
  \/ \E el \in alloc : ReadStyle(el)
  \/ \E i \in 1..Len(views) : \E name \in StyleNames : \E value \in StyleValues :
       CallSetProperty(i, name, value)

SpecStyle == Init /\ [][NextStyle]_vars

\* A page of up to MaxPage nodes that is synchronized and then queried
\* through the document.
PageGrow ==
  /\ sn[dom] = NoSn
  /\ \/ \E p \in LiveNodes :
          \E t \in {"DOCUMENT_TYPE_NODE", "TEXT_NODE",
                    "PROCESSING_INSTRUCTION_NODE"} :
            LiveAdd(p, t, "", NoAttributes, MaxPage)
     \/ \E p \in LiveNodes : \E tag \in LiveTags : \E a \in {NoAttr, "a"} :
          LiveAdd(p, "ELEMENT_NODE", tag, [NoAttributes EXCEPT !.id = a],
                  MaxPage)

PageQuery == \E tag \in {"html", "body", "div"} : CallGetElementsByTagName(doc, tag)

NextPage ==
  \/ PageGrow
  \/ CallBuildFromDom(dom)
  \/ PageQuery

SpecPage == Init /\ [][NextPage]_vars

\* ------------------------------------------------------------- claims
Containers == {"Document", "Element"}

KindCount(s, k) == Cardinality({s[i] : i \in {j \in 1..Len(s) : KindOf(s[j]) = k}})

\* s with x put in at index k.
InsertedAt(old, new, k, x) ==
  /\ Len(new) = Len(old) + 1
  /\ new[k] = x
  /\ \A j \in 1..Len(old) : IF j < k THEN new[j] = old[j] ELSE new[j + 1] = old[j]

\* s with the entry at index k taken out.
RemovedAt(old, new, k) ==
  /\ Len(new) = Len(old) - 1
  /\ \A j \in 1..Len(new) : IF j < k THEN new[j] = old[j] ELSE new[j] = old[j + 1]

TreeUnchanged ==
  /\ children' = children
  /\ parentNode' = parentNode
  /\ parentElement' = parentElement

\* C1: in every reachable state, the children of every RRDocument hold at
\* most one Element-kind node and at most one DocumentType-kind node.
C1_DocumentRootConstraint ==
  \A d \in alloc : KindOf(d) = "Document" =>
    /\ KindCount(children[d], "Element") <= 1
    /\ KindCount(children[d], "DocumentType") <= 1

\* C2: after every appendChild, insertBefore or removeChild call that returns
\* normally, a node c occurs in p.children if and only if c.parentNode is p.
C2_ParentMatchesContainer ==
  (lastCall.op \in {"appendChild", "insertBefore", "removeChild"}
     /\ lastCall.err = "none") =>
    \A p, c \in alloc : InSeq(children[p], c) <=> parentNode[c] = p

\* The action properties below speak of the step a call makes: a step of
\* CallAppendChild(p, c), CallInsertBefore(p, c, r) or CallRemoveChild(p, c)
\* leaves p in lastCall'.recv, so p is read from there.

\* C3: RRDocument.appendChild(c) with c an Element (a DocumentType) when the
\* document already has an Element (a DocumentType) child throws and leaves
\* the children and the back-references of every node as they were.
C3_DuplicateRootRejected ==
  [][lastCall'.op = "appendChild" =>
     LET d == lastCall'.recv
     IN \A c \in alloc :
          (/\ KindOf(d) = "Document"
           /\ KindOf(c) \in {"Element", "DocumentType"}
           /\ \E i \in 1..Len(children[d]) : KindOf(children[d][i]) = KindOf(c)
           /\ CallAppendChild(d, c))
          => /\ lastCall'.err = (IF KindOf(c) = "Element"
                                   THEN "only one RRElement"
                                   ELSE "only one RRDoctype")
             /\ TreeUnchanged]_vars

C3_Witness ==
  /\ lastCall.op = "appendChild"
  /\ lastCall.recv = doc
  /\ lastCall.err = "only one RRDoctype"
  /\ KindCount(children[doc], "DocumentType") = 1

\* C4: appendChild on a Text, Comment, CDATASection or DocumentType node
\* throws the unsupported-operation error whatever the argument, and changes
\* nothing: the receiver still has no children and no back-reference moves.
C4_LeafAppendUnsupported ==
  [][lastCall'.op = "appendChild" =>
     LET p == lastCall'.recv
     IN \A c \in alloc :
          (KindOf(p) \in LeafKinds /\ CallAppendChild(p, c))
          => /\ lastCall'.err = "unsupported"
             /\ children'[p] = <<>>
             /\ TreeUnchanged]_vars

C4_Witness ==
  /\ lastCall.op = "appendChild"
  /\ KindOf(lastCall.recv) = "Text"
  /\ lastCall.err = "unsupported"
  /\ \E c \in alloc : KindOf(c) = "Element" /\ parentNode[c] = Null

\* C5: insertBefore(newNode, refNode) on an RRElement or RRDocument with a
\* non-null refNode that is not among the receiver's children throws the
\* reference-not-found error and leaves the children of the receiver and the
\* back-references of newNode as they were.
C5_RefNotFoundRejected ==
  [][lastCall'.op = "insertBefore" =>
     LET p == lastCall'.recv
     IN \A c, r \in alloc :
          (/\ KindOf(p) \in Containers
           /\ ~InSeq(children[p], r)
           /\ CallInsertBefore(p, c, r))
          => /\ lastCall'.err = "refnotfound"
             /\ children'[p] = children[p]
             /\ parentNode'[c] = parentNode[c]
             /\ parentElement'[c] = parentElement[c]]_vars

C5_Witness ==
  /\ lastCall.op = "insertBefore"
  /\ KindOf(lastCall.recv) = "Element"
  /\ lastCall.err = "refnotfound"
  /\ Len(children[lastCall.recv]) = 2

\* C6: insertBefore(newNode, refNode) on an RRElement or RRDocument with
\* refNode among the receiver's children returns newNode, and the children
\* become the old children with newNode put in immediately before refNode:
\* one entry more, every old entry kept in its order.
C6_InsertBeforeSplices ==
  [][lastCall'.op = "insertBefore" =>
     LET p == lastCall'.recv
     IN \A c, r \in alloc :
          (/\ KindOf(p) \in Containers
           /\ InSeq(children[p], r)
           /\ CallInsertBefore(p, c, r))
          => /\ lastCall'.err = "none"
             /\ lastCall'.ret = c
             /\ \E k \in 1..Len(children[p]) :
                  /\ children[p][k] = r
                  /\ InsertedAt(children[p], children'[p], k, c)]_vars

C6_Witness ==
  /\ lastCall.op = "insertBefore"
  /\ lastCall.err = "none"
  /\ lastCall.ref # Null
  /\ lastCall.index = 2
  /\ lastCall.ret = lastCall.arg
  /\ Len(children[lastCall.recv]) = 3
  /\ children[lastCall.recv][2] = lastCall.arg
  /\ children[lastCall.recv][3] = lastCall.ref
  /\ children[lastCall.recv][1] \notin {lastCall.arg, lastCall.ref}

\* C7: removeChild(node) never throws, whatever the class of the receiver.
\* When node is not among the receiver's children nothing changes; when it
\* is, its entry is taken out of the receiver's children, the other entries
\* keep their order, and node's parentNode and parentElement become null.
C7_RemoveChild ==
  [][lastCall'.op = "removeChild" =>
     LET p == lastCall'.recv
     IN \A c \in alloc :
          CallRemoveChild(p, c)
          => /\ lastCall'.err = "none"
             /\ IF InSeq(children[p], c)
                  THEN /\ \E k \in 1..Len(children[p]) :
                            /\ children[p][k] = c
                            /\ RemovedAt(children[p], children'[p], k)
                       /\ \A q \in Nodes \ {p} : children'[q] = children[q]
                       /\ parentNode'[c] = Null
                       /\ parentElement'[c] = Null
                       /\ \A n \in Nodes \ {c} :
                            /\ parentNode'[n] = parentNode[n]
                            /\ parentElement'[n] = parentElement[n]
                  ELSE TreeUnchanged]_vars

C7_Witness ==
  /\ lastCall.op = "removeChild"
  /\ lastCall.err = "none"
  /\ lastCall.index = 2
  /\ Len(children[lastCall.recv]) = 2
  /\ ~InSeq(children[lastCall.recv], lastCall.arg)
  /\ parentNode[lastCall.arg] = Null
  /\ parentElement[lastCall.arg] = Null

\* C8: in every state reached by appendChild, insertBefore, removeChild and
\* buildFromDom calls, a node's parentElement is non-null only if its
\* parentNode is an Element, and is then that node; a node whose parentNode
\* is a Document or null has a null parentElement.
C8_ParentElementIsElementParent ==
  \A n \in Nodes :
    /\ parentElement[n] # Null =>
         /\ parentNode[n] # Null
         /\ KindOf(parentNode[n]) = "Element"
         /\ parentElement[n] = parentNode[n]
    /\ (parentNode[n] = Null \/ KindOf(parentNode[n]) = "Document") =>
         parentElement[n] = Null

C8_Witness ==
  /\ lastCall.op = "buildFromDom"
  /\ lastCall.err = "none"
  /\ edits = 1
  /\ \E n \in alloc : parentElement[n] # Null /\ rrsn[n] # 0
  /\ \E n \in alloc : parentNode[n] = doc /\ KindOf(n) = "Element"

\* C9: after any sequence of buildFromDom calls on a live tree to which nodes
\* may be added between the calls, no two live nodes carry the same id (so a
\* generated id never equals one already stamped), and every mirror entry is
\* the virtual node of exactly one live node.
C9_IdsUnique ==
  /\ \A l1, l2 \in LiveNodes :
       (l1 # l2 /\ sn[l1] # NoSn /\ sn[l2] # NoSn) => sn[l1].id # sn[l2].id
  /\ \A id \in DOMAIN mirror :
       Cardinality({l \in LiveNodes : sn[l] # NoSn /\ sn[l].id = id}) = 1

GeneratedVisits == {i \in 1..Len(walkLog) : walkLog[i].generated}

\* C10: the live nodes that one buildFromDom walk finds without a record get
\* negative ids, strictly decreasing in the order of the visits (so pairwise
\* distinct), each stamped on its live node.
C10_GeneratedIdsDecrease ==
  /\ \A i \in GeneratedVisits :
       /\ walkLog[i].id < 0
       /\ sn[walkLog[i].node].id = walkLog[i].id
  /\ \A i, j \in GeneratedVisits : i < j => walkLog[i].id > walkLog[j].id

C10_Witness ==
  /\ lastCall.op = "buildFromDom"
  /\ Cardinality(GeneratedVisits) = 2
  /\ \E i \in 1..Len(walkLog) : ~walkLog[i].generated
  /\ \E i \in GeneratedVisits : walkLog[i].id = -2

\* The number of entries over all children lists that hold n.
Occurrences(n) ==
  LET RECURSIVE Sum(_)
      Sum(S) == IF S = {} THEN 0
                ELSE LET p == CHOOSE p \in S : TRUE
                     IN Cardinality({i \in 1..Len(children[p]) :
                                       children[p][i] = n}) + Sum(S \ {p})
  IN Sum(alloc)

ChildSet(n) == {children[n][i] : i \in 1..Len(children[n])}

RECURSIVE Reach(_, _)
Reach(S, k) ==
  IF k = 0 THEN S ELSE Reach(S \cup UNION {ChildSet(p) : p \in S}, k - 1)

\* The nodes reached from n through one or more children steps.
Descendants(n) == Reach(ChildSet(n), Cardinality(alloc))

\* C18: after any sequence of appendChild, insertBefore and removeChild calls
\* every node occurs at most once over all children lists (not twice in one
\* list, not in the lists of two containers), and no node is reached from
\* itself through the children relation.
C18_TreeStaysTree ==
  \A n \in alloc :
    /\ Occurrences(n) <= 1
    /\ n \notin Descendants(n)


\* The ids the last walk's visits read or generated, and those of the
\* visits of live nodes of a mapped kind.
VisitedIds == {walkLog[i].id : i \in 1..Len(walkLog)}

MappedVisitedIds ==
  {walkLog[i].id : i \in {j \in 1..Len(walkLog) :
      liveType[walkLog[j].node] # "PROCESSING_INSTRUCTION_NODE"}}

\* The virtual nodes in the mirror or reached from the document.
Held == {mirror[id] : id \in DOMAIN mirror} \cup Descendants(doc)

\* C14 as stated: after every buildFromDom(dom) call that returns, the
\* mirror holds exactly the ids of the live nodes the walk visited, and no
\* virtual node an earlier walk built is in the mirror or reached from the
\* document.
C14_DestructiveRebuild_AllVisited ==
  [][CallBuildFromDom(dom) /\ lastCall'.err = "none"
     => /\ (DOMAIN mirror)' = VisitedIds'
        /\ Held' \cap (alloc \ {doc}) = {}]_vars

\* C14 amended: after every buildFromDom(dom) call that returns, the mirror
\* holds exactly the ids of the visited live nodes of a mapped kind, and
\* every virtual node in the mirror or reached from the document through
\* children is the document itself or was made by this walk: no node an
\* earlier walk built (for a live node since removed or not) is kept.
C14_DestructiveRebuild ==
  [][CallBuildFromDom(dom) /\ lastCall'.err = "none"
     => /\ (DOMAIN mirror)' = MappedVisitedIds'
        /\ Held' \cap (alloc \ {doc}) = {}]_vars

\* A second walk has run after the page lost a node the first walk had
\* built a virtual node for: that node is allocated but no longer held.
C14_Witness ==
  /\ lastCall.op = "buildFromDom"
  /\ lastCall.err = "none"
  /\ \E l \in LiveNodes :
       /\ liveType[l] = "ELEMENT_NODE"
       /\ ~InPage(l)
       /\ \E n \in alloc \ Held : rrsn[n] = sn[l].id /\ KindOf(n) = "Element"
  /\ Cardinality(DOMAIN mirror) = 2
  /\ walkLog # <<>>
  /\ \A i \in 1..Len(walkLog) : InPage(walkLog[i].node)

Unmapped(l) == liveType[l] = "PROCESSING_INSTRUCTION_NODE"

\* What C15 says of the state a walk leaves: every visited node but the root
\* lies under a live node whose record kind is Document or Element; the
\* visit of a node of an unmapped kind resolved to no virtual node, left no
\* mirror entry under the node's id and did not throw (a walk that threw
\* did so at its last visit); every virtual leaf node has no children.
SkipsUnmapped ==
  /\ \A i \in 1..Len(walkLog) :
       LET l == walkLog[i].node
       IN /\ l # dom => sn[liveParent[l]].type \in {"Document", "Element"}
          /\ Unmapped(l) => /\ walkLog[i].rrNode = Null
                            /\ walkLog[i].id \notin DOMAIN mirror
                            /\ (i = Len(walkLog) => lastCall.err = "none")
  /\ \A n \in alloc : KindOf(n) \in LeafKinds => children[n] = <<>>

\* C15: every buildFromDom(dom) call visits live children only under nodes
\* whose record kind is Document or Element, makes no virtual node and no
\* mirror entry for a live node of an unmapped kind and does not throw on
\* it, and leaves every Text, Comment, CDATASection and DocumentType node
\* without children.
C15_SkipsUnmapped ==
  [][CallBuildFromDom(dom) => SkipsUnmapped']_vars

\* The same when no two live nodes carry the same id after the walk.
SkipsUnmappedWhenIdsUnique ==
  [][CallBuildFromDom(dom) /\ C9_IdsUnique' => SkipsUnmapped']_vars

\* The shape of the virtual tree under n: kinds, tag names, attributes, ids
\* and the children in order, whatever the identities of the objects.  A
\* children relation with a loop is unfolded MaxPage levels deep.
RECURSIVE TreeShape(_, _)
TreeShape(n, depth) ==
  [kind |-> KindOf(n), tagName |-> tagName[n], attributes |-> attributes[n],
   id |-> rrsn[n],
   kids |-> IF depth = 0 THEN <<>>
            ELSE [i \in 1..Len(children[n]) |->
                    TreeShape(children[n][i], depth - 1)]]

\* The virtual tree of the document and the trees under the mirror entries.
Shape ==
  [tree |-> TreeShape(doc, MaxPage),
   mirror |-> [id \in DOMAIN mirror |-> TreeShape(mirror[id], MaxPage)]]

\* The live nodes under l in the order a walk visits them.
RECURSIVE LivePreOrder(_), LivePreOrderAll(_, _)
LivePreOrder(l) == <<l>> \o LivePreOrderAll(liveKids[l], 1)

LivePreOrderAll(kids, i) ==
  IF i > Len(kids) THEN <<>>
  ELSE LivePreOrder(kids[i]) \o LivePreOrderAll(kids, i + 1)

\* The last call was a buildFromDom(dom) that returned, and the live tree is
\* as that walk found it: the same nodes in the same places, each with the
\* id the walk read or stamped.
WalkedAndUnchanged ==
  /\ lastCall.op = "buildFromDom"
  /\ lastCall.arg = dom
  /\ lastCall.err = "none"
  /\ [i \in 1..Len(walkLog) |-> walkLog[i].node] = LivePreOrder(dom)
  /\ \A i \in 1..Len(walkLog) : sn[walkLog[i].node].id = walkLog[i].id

\* C11: a buildFromDom(dom) call on a live tree that is as the previous
\* walk left it (every node carrying its id, stamped from outside or by that
\* walk) returns and leaves a virtual tree of the same shape as the previous
\* walk did: the same kinds, tag names, attributes, ids and child order.
C11_RebuildIdempotent ==
  [][WalkedAndUnchanged /\ CallBuildFromDom(dom)
     => /\ lastCall'.err = "none"
        /\ Shape' = Shape]_vars

\* Two walks in a row over a page with two elements, one with an id
\* attribute, one node stamped from outside and the others by the first walk.
C11_Witness ==
  /\ WalkedAndUnchanged
  /\ Len(walkLog) = 3
  /\ \A i \in 1..Len(walkLog) : ~walkLog[i].generated
  /\ \E i \in 1..Len(walkLog) : walkLog[i].id < 0
  /\ \E i \in 1..Len(walkLog) : walkLog[i].id > 0
  /\ Len(children[doc]) = 1
  /\ tagName[children[doc][1]] = "html"
  /\ Len(children[children[doc][1]]) = 1
  /\ attributes[children[children[doc][1]][1]].id = "a"

\* The virtual node the mirror holds for live node l.
VirtualOf(l) == mirror[sn[l].id]

\* The live children of l of a mapped kind, in order.
MappedKids(l) == SelectSeq(liveKids[l], LAMBDA k : ~Unmapped(k))

\* The calling document's tree mirrors the live tree: every live node of a
\* mapped kind has its own id and, under it, one virtual node of the
\* matching kind (the calling document for the live document; an element
\* with the lower-cased tag and the attributes); the children of that node
\* are the virtual nodes of the live node's mapped children in order, each
\* with the node as its parentNode.
Mirrors ==
  /\ sn[dom].id \in DOMAIN mirror
  /\ VirtualOf(dom) = doc
  /\ \A l \in LiveNodes : (InPage(l) /\ ~Unmapped(l)) =>
       /\ sn[l].id \in DOMAIN mirror
       /\ \A m \in LiveNodes \ {l} : InPage(m) => sn[m].id # sn[l].id
       /\ KindOf(VirtualOf(l)) = NodeTypeMap(liveType[l])
       /\ rrsn[VirtualOf(l)] = sn[l].id
       /\ liveType[l] = "ELEMENT_NODE" =>
            /\ tagName[VirtualOf(l)] = ToLowerCase(liveTag[l])
            /\ attributes[VirtualOf(l)] = liveAttrs[l]
       /\ children[VirtualOf(l)] =
            [i \in 1..Len(MappedKids(l)) |-> VirtualOf(MappedKids(l)[i])]
       /\ \A i \in 1..Len(MappedKids(l)) :
            parentNode[VirtualOf(MappedKids(l)[i])] = VirtualOf(l)
  /\ Cardinality(DOMAIN mirror) =
       Cardinality({l \in LiveNodes : InPage(l) /\ ~Unmapped(l)})

\* The live tree <html><body><div id="a">hi</div></body></html>.
ScenarioPage ==
  /\ liveKids[dom] = <<2>> /\ liveTag[2] = "HTML" /\ liveAttrs[2].id = NoAttr
  /\ liveKids[2] = <<3>> /\ liveTag[3] = "BODY" /\ liveAttrs[3].id = NoAttr
  /\ liveKids[3] = <<4>> /\ liveTag[4] = "DIV" /\ liveAttrs[4].id = "a"
  /\ liveKids[4] = <<5>> /\ liveType[5] = "TEXT_NODE"

\* On that page: documentElement is the html element, body the body
\* element, and getElementsByTagName('div') returns the one div, whose id
\* attribute is 'a'.
ScenarioViews ==
  /\ documentElement(Heap, doc) = VirtualOf(2)
  /\ tagName[documentElement(Heap, doc)] = "html"
  /\ body(Heap, doc) = VirtualOf(3)
  /\ tagName[body(Heap, doc)] = "body"
  /\ getElementsByTagName(Heap, doc, "div") =
       [err |-> "none", ret |-> <<VirtualOf(4)>>]
  /\ attributes[VirtualOf(4)].id = "a"

\* No live node carries a record.
FreshPage == \A l \in LiveNodes : sn[l] = NoSn

\* C12: a buildFromDom(dom) call on a live tree none of whose nodes carries
\* a record returns and leaves the calling document's tree mirroring the
\* live tree (kinds, ids, tags, attributes, child order, parentNode); on the
\* page <html><body><div id="a">hi</div></body></html> the documentElement,
\* body and getElementsByTagName('div') views read as the claim says.
C12_MirrorsLiveTree ==
  [][FreshPage /\ CallBuildFromDom(dom)
     => /\ lastCall'.err = "none"
        /\ Mirrors'
        /\ ScenarioPage => ScenarioViews']_vars

\* The scenario page has been synchronized and the document asked for its
\* div elements.
C12_Witness ==
  /\ ScenarioPage
  /\ Mirrors
  /\ lastCall.op = "getElementsByTagName"
  /\ callText.name = "div"
  /\ Len(found) = 1
  /\ attributes[found[1]].id = "a"
  /\ parentNode[found[1]] = body(Heap, doc)
  /\ \A i \in 1..Len(walkLog) : walkLog[i].generated

\* The nodes of the subtree of n in pre-order (n, then the subtree of each
\* child in order), through children of every class; a loop of the children
\* relation is followed depth levels deep.
RECURSIVE PreOrder(_, _), PreOrderAll(_, _, _)
PreOrder(n, depth) ==
  IF depth = 0 THEN <<n>> ELSE <<n>> \o PreOrderAll(children[n], 1, depth - 1)

PreOrderAll(kids, i, depth) ==
  IF i > Len(kids) THEN <<>>
  ELSE PreOrder(kids[i], depth) \o PreOrderAll(kids, i + 1, depth)

\* s without the later occurrences of its entries.
RECURSIVE Once(_)
Once(s) ==
  IF s = <<>> THEN <<>>
  ELSE LET front == Once(SubSeq(s, 1, Len(s) - 1))
       IN IF InSeq(front, s[Len(s)]) THEN front ELSE Append(front, s[Len(s)])

\* The elements tagged tag in the subtree of n, each once, in pre-order.
Matches(n, tag) ==
  SelectSeq(Once(PreOrder(n, Cardinality(alloc))),
            LAMBDA e : KindOf(e) = "Element" /\ tagName[e] = tag)

\* C17: a getElementsByTagName(tag) call on an RRElement or RRDocument
\* returns the elements of the receiver's subtree (the receiver included)
\* whose tagName is tag, each once, in pre-order, and changes nothing in the
\* tree.
C17_ElementsByTagName ==
  [][lastCall'.op = "getElementsByTagName"
     => /\ lastCall'.err = "none"
        /\ found' = Matches(lastCall'.recv, callText'.name)
        /\ UNCHANGED treeVars]_vars

\* The same on a tree: every node in at most one children list, once, no
\* node under itself, and documents only at the root.
ElementsByTagNameOnTrees ==
  [][(/\ lastCall'.op = "getElementsByTagName"
      /\ C18_TreeStaysTree
      /\ \A p, c \in alloc : InSeq(children[p], c) => KindOf(c) # "Document")
     => /\ lastCall'.err = "none"
        /\ found' = Matches(lastCall'.recv, callText'.name)
        /\ UNCHANGED treeVars]_vars

\* The step of a buildFromDom(dom) call that returns normally.
Rebuilt == CallBuildFromDom(dom) /\ lastCall'.err = "none"

\* The mirror holds the calling document under the live document's id and
\* the virtual nodes of the live document's mapped children are children
\* of the calling document.
RootIsCallingDocument ==
  /\ sn[dom].id \in DOMAIN mirror
  /\ mirror[sn[dom].id] = doc
  /\ \A i \in 1..Len(liveKids[dom]) :
       LET l == liveKids[dom][i]
       IN liveType[l] # "PROCESSING_INSTRUCTION_NODE"
          => /\ sn[l].id \in DOMAIN mirror
             /\ InSeq(children[doc], mirror[sn[l].id])

\* C20: after every buildFromDom(dom) call that returns, whatever record the
\* live document carries (one with a rootId included), the virtual node in
\* the mirror under the live document's id is the calling RRDocument, and
\* the virtual nodes of the live document's mapped children are the
\* children of the calling RRDocument.
C20_RootIsCallingDocument ==
  [][Rebuilt => RootIsCallingDocument']_vars

\* ---------------------------------------------------------------- C13
\* A setProperty call made through a view that equals what el.style returns
\* at the time of the call: the call el.style.setProperty(name, value).
SetPropertyOnFreshView ==
  /\ lastCall'.op = "setProperty"
  /\ \E i \in 1..Len(views) : \E name \in StyleNames : \E value \in StyleValues :
       /\ CallSetProperty(i, name, value)
       /\ views[i] = RRElement_style(Heap, views[i].el)

\* What a read of el.style holds for the property last set.
ReadBackHolds ==
  LET map == RRElement_style(Heap, lastCall.recv).map
      key == camelize(callText.name)
  IN /\ lastCall.err = "none"
     /\ IF callText.value # ""
          THEN HasKey(map, key) /\ Lookup(map, key) = callText.value
          ELSE ~HasKey(map, key)

\* C13: after el.style.setProperty(name, value) with a truthy value, reading
\* el.style yields a map with the key camelize(name) equal to value; with a
\* falsy value the key is absent.
C13_SetPropertyReadBack == [][SetPropertyOnFreshView => ReadBackHolds']_vars

\* The same for every property name but the one whose normalized name is the
\* key under which the getter stores the closure.
SetPropertyReadBackOtherNames ==
  [][SetPropertyOnFreshView /\ camelize(callText'.name) # "setProperty"
       => ReadBackHolds']_vars

\* A truthy value was set over an attribute that held another value, and a
\* falsy one removed a property the attribute held.
C13_Witness ==
  /\ lastCall.op = "setProperty"
  /\ lastCall.err = "none"
  /\ callText.name = "background-color"
  /\ callText.value = "red"
  /\ Heap.attributes[lastCall.recv].style
       = <<[name |-> "background-color", value |-> "red"],
           [name |-> "color", value |-> "blue"]>>

\* ---------------------------------------------------------------- C19
\* The properties the style attribute of the element holds.
Declared(h, el) == parseCSSText(h.attributes[el].style)

\* A setProperty call that returned.
SetPropertyReturned ==
  /\ lastCall'.op = "setProperty"
  /\ lastCall'.err = "none"
  /\ \E i \in 1..Len(views) : \E name \in StyleNames : \E value \in StyleValues :
       CallSetProperty(i, name, value)

\* Every property of the attribute before the call other than the one set
\* is a property of the attribute after it, with its value.
OtherPropertiesKept ==
  \A i \in 1..Len(Declared(Heap, lastCall'.recv)) :
    LET e == Declared(Heap, lastCall'.recv)[i]
    IN e.key # camelize(callText'.name)
         => /\ HasKey(Declared(Heap', lastCall'.recv), e.key)
            /\ Lookup(Declared(Heap', lastCall'.recv), e.key) = e.value

\* C19: setProperty(name, value) changes or removes only name's entry: every
\* other property present in the attribute string before the call is present
\* with the same value after it, whichever view the call is made through and
\* whatever was read or written in between.
C19_SetPropertyKeepsOthers == [][SetPropertyReturned => OtherPropertiesKept]_vars

\* The same through a view that equals what el.style returns at the time of
\* the call, over an attribute without the property set-property.
SetPropertyKeepsOthersOnFreshView ==
  [][/\ SetPropertyOnFreshView
     /\ lastCall'.err = "none"
     /\ ~HasKey(Declared(Heap, lastCall'.recv), "setProperty")
     => OtherPropertiesKept]_vars

\* ---------------------------------------------------------------- C16
\* No live node is visited twice by the walk under way or last made, and no
\* node already visited is still to be visited.
NoRevisit ==
  /\ \A i, j \in 1..Len(walkLog) : walkLog[i].node = walkLog[j].node => i = j
  /\ \A i, j \in 1..Len(pending) : pending[i] = pending[j] => i = j
  /\ \A i \in 1..Len(walkLog) : \A j \in 1..Len(pending) :
       walkLog[i].node # pending[j]

\* The visits made and to come are visits of nodes of the page.
WithinPage ==
  /\ \A i \in 1..Len(walkLog) : InPage(walkLog[i].node)
  /\ \A j \in 1..Len(pending) : InPage(pending[j])

\* C16: for every finite live tree a buildFromDom walk eventually finishes,
\* by returning or by raising an error, and it visits each live node at most
\* once.
C16_WalkTerminates ==
  /\ [](NoRevisit /\ WithinPage)
  /\ (pc = "walk") ~> (pc = "idle")

\* A walk over a page of three nodes, one under the other, that returned.
C16_Witness ==
  /\ pc = "idle"
  /\ lastCall.op = "buildFromDom"
  /\ lastCall.err = "none"
  /\ Len(walkLog) = 3
  /\ \E l \in LiveNodes : liveParent[l] # Null /\ liveParent[l] # dom

====
